---------------------------- MODULE Spec2Model ----------------------------
(***************************************************************************)
(* ChatDBManager (src/src/model/ChatDBManager.js): a read-only wrapper of  *)
(* the iMessage database.  The store is fixed at construction; every       *)
(* operation returns a promise that is settled by the callback of the      *)
(* database query (or queries) it issued.                                  *)
(*                                                                         *)
(* Texts are sequences of one-character strings, so that the regular       *)
(* expression replace, the split and toLowerCase are computed character by *)
(* character.  JavaScript numbers are records: NaN is a value of its own.  *)
(***************************************************************************)
EXTENDS Integers, Sequences, FiniteSets

VARIABLES db, op, arg, pending, identifiers, values, completion, failed, promise

vars == <<db, op, arg, pending, identifiers, values, completion, failed, promise>>

(***************************************************************************)
(* Bounds of the model.                                                    *)
(***************************************************************************)
\* rows of the store: chat rows plus message rows
MaxRows == 4

(***************************************************************************)
(* JavaScript values.                                                      *)
(***************************************************************************)
\* SQL NULL / JavaScript null in a text column
NULL == <<"null">>

NaN == [nan |-> TRUE, num |-> 0, den |-> 1]

Abs(i) == IF i < 0 THEN -i ELSE i

RECURSIVE Gcd(_, _)
Gcd(a, b) == IF b = 0 THEN a ELSE Gcd(b, a % b)

\* the number a / b, b > 0, in lowest terms
Num(a, b) == LET g == Gcd(Abs(a), b) IN [nan |-> FALSE, num |-> a \div g, den |-> b \div g]

\* a / b as the `/` of line 170 computes it (a is 0 whenever b is 0 there)
Divide(a, b) == IF b = 0 THEN NaN ELSE Num(a, b)

\* x + 1 of a number
Increment(x) == IF x.nan THEN NaN ELSE Num(x.num + x.den, x.den)

\* x + y of two numbers
Plus(x, y) == IF x.nan \/ y.nan THEN NaN ELSE Num(x.num * y.den + y.num * x.den, x.den * y.den)

\* the sign of x - y; a NaN difference is taken as 0 by Array.prototype.sort
SignOfDifference(x, y) ==
    IF x.nan \/ y.nan THEN 0
    ELSE LET d == x.num * y.den - y.num * x.den
         IN IF d > 0 THEN 1 ELSE IF d < 0 THEN -1 ELSE 0

\* x >= y of two numbers: false when either is NaN
GreaterOrEqual(x, y) == ~x.nan /\ ~y.nan /\ x.num * y.den >= y.num * x.den

(***************************************************************************)
(* Texts.                                                                  *)
(***************************************************************************)
HelloWorld == <<"H","e","l","l","o"," ","w","o","r","l","d">>

ILoveYou == <<"i"," ","l","o","v","e"," ","y","o","u",","," ",
              "I"," ","L","O","V","E"," ","y","o","u","!">>

Constructor == <<"c","o","n","s","t","r","u","c","t","o","r">>

SoBad == <<"B","a","d"," "," ",":","(">>

UpperCase == <<"A","B","C","D","E","F","G","H","I","J","K","L","M",
               "N","O","P","Q","R","S","T","U","V","W","X","Y","Z">>

LowerCase == <<"a","b","c","d","e","f","g","h","i","j","k","l","m",
               "n","o","p","q","r","s","t","u","v","w","x","y","z">>

\* the grave accent, as one character (the lexer takes none inside a string)
GraveAccent == "grave"

\* the character class of the regular expression of line 105, whose ",-\/" is
\* the range from "," to "/"
Punctuation == {".", ",", "-", "/", "#", "!", "$", "%", "^", "&", "*", ";", ":",
                "{", "}", "=", "_", GraveAccent, "~", "(", ")"}

\* the characters \s matches
WhiteSpace == {" ", "\t", "\n", "\r", "\f"}

\* text.replace(/[...]/g, "")
CleanText(text) == SelectSeq(text, LAMBDA c : c \notin Punctuation)

\* cleanText.split(/\s/): one token between any two white space characters,
\* the empty ones included; the empty text gives one empty token
Split(text) ==
    LET F[i \in 0..Len(text)] ==
          IF i = 0 THEN << <<>> >>
          ELSE LET tokens == F[i-1]
               IN IF text[i] \in WhiteSpace THEN Append(tokens, <<>>)
                  ELSE [tokens EXCEPT ![Len(tokens)] = Append(@, text[i])]
    IN F[Len(text)]

ToLowerChar(c) ==
    IF \E i \in 1..Len(UpperCase) : UpperCase[i] = c
    THEN LowerCase[CHOOSE i \in 1..Len(UpperCase) : UpperCase[i] = c]
    ELSE c

\* rawWord.toLowerCase()
ToLowerCase(word) == [i \in 1..Len(word) |-> ToLowerChar(word[i])]

(***************************************************************************)
(* The store: tables chat, chat_handle_join and message.                   *)
(***************************************************************************)
\* chat_identifier of the chat with ROWID i
Ids == <<"a", "b", "c", "d", "e", "f">>

\* an identifier no chat row names
Stranger == "nobody"

Services == {"iMessage", "SMS"}

\* the (text, is_from_me, cache_has_attachments) of the message rows drawn
MessageKinds ==
    { [text |-> HelloWorld,  is_from_me |-> 0, cache_has_attachments |-> 0],
      [text |-> NULL,        is_from_me |-> 0, cache_has_attachments |-> 1],
      [text |-> ILoveYou,    is_from_me |-> 1, cache_has_attachments |-> 0],
      [text |-> Constructor, is_from_me |-> 1, cache_has_attachments |-> 0],
      [text |-> SoBad,       is_from_me |-> 0, cache_has_attachments |-> 1],
      [text |-> NULL,        is_from_me |-> 1, cache_has_attachments |-> 0] }

\* the two kinds that are enough where only the settling of promises counts
FewMessageKinds ==
    { [text |-> HelloWorld,  is_from_me |-> 0, cache_has_attachments |-> 0],
      [text |-> NULL,        is_from_me |-> 1, cache_has_attachments |-> 0] }

MessageRows(c, kinds) ==
    { [handle_id |-> h, text |-> k.text, is_from_me |-> k.is_from_me, date |-> 0,
       cache_has_attachments |-> k.cache_has_attachments] :
         h \in 1..c, k \in kinds }

SeqsUpTo(S, n) == UNION { [1..m -> S] : m \in 0..n }

Min(a, b) == IF a < b THEN a ELSE b

\* the store with c chats, chat i of service[i], and the message rows msgs
Store(c, service, msgs) ==
    [ chat |-> [i \in 1..c |-> [ROWID |-> i, chat_identifier |-> Ids[i],
                                guid |-> service[i] \o ";-;" \o Ids[i]]],
      chat_handle_join |-> [i \in 1..c |-> [chat_id |-> i, handle_id |-> i]],
      message |-> msgs ]

\* the stores of at most MaxRows rows whose messages are of the given kinds
StoresOf(kinds) ==
    UNION { { Store(c, service, msgs) :
                service \in [1..c -> Services],
                msgs \in SeqsUpTo(MessageRows(c, kinds), MaxRows - c) } :
            c \in 0..Min(MaxRows, Len(Ids)) }

Stores == StoresOf(MessageKinds)

\* the value of a scalar subquery: the column of its first row, NULL (0: no
\* row has that id) when it selects none
Scalar(rows) == IF rows = <<>> THEN 0 ELSE rows[1]

\* ChatRowId with the chat matched on chat_identifier, whatever its guid
ChatRowIdByIdentifier(d, identifier) ==
    LET rows == SelectSeq(d.chat, LAMBDA r : r.chat_identifier = identifier)
    IN Scalar([i \in 1..Len(rows) |-> rows[i].ROWID])

\* SELECT ROWID FROM chat WHERE guid='iMessage;-;${identifier}'
ChatRowId(d, identifier) ==
    LET rows == SelectSeq(d.chat, LAMBDA r : r.guid = "iMessage;-;" \o identifier)
    IN Scalar([i \in 1..Len(rows) |-> rows[i].ROWID])

\* SELECT handle_id FROM chat_handle_join WHERE chat_id = (...)
HandleId(d, identifier) ==
    LET rows == SelectSeq(d.chat_handle_join,
                          LAMBDA r : r.chat_id = ChatRowId(d, identifier))
    IN Scalar([i \in 1..Len(rows) |-> rows[i].handle_id])

\* SELECT * FROM message where handle_id = (...)
MessageQuery(d, identifier) ==
    SelectSeq(d.message, LAMBDA r : r.handle_id = HandleId(d, identifier))

\* SELECT chat_identifier FROM chat
ChatQuery(d) == [i \in 1..Len(d.chat) |-> [chat_identifier |-> d.chat[i].chat_identifier]]

(***************************************************************************)
(* Promises and errors.                                                    *)
(***************************************************************************)
Idle == [state |-> "idle", value |-> <<>>]

Pending == [state |-> "pending", value |-> <<>>]

Resolved(v) == [state |-> "resolved", value |-> v]

Rejected(e) == [state |-> "rejected", value |-> e]

\* the native error db.all hands to the callback of query q
DbError(q) == [name |-> "SQLITE_ERROR", query |-> q]

\* what reading a property of null throws
TypeError == [name |-> "TypeError", query |-> -1]

(***************************************************************************)
(* Array.prototype.sort on a short array: insertion sort, each element     *)
(* moved left past the elements that comparefn orders after it.  comparefn *)
(* names one of the three comparators of the class.                        *)
(***************************************************************************)
\* (a, b) => stats[b] - stats[a]
ByCount(a, b) == SignOfDifference(b.count, a.count)

\* (a, b) => b.text.length - a.text.length
ByLength(a, b) == Len(b.text) - Len(a.text)

\* (a, b) => b.score - a.score
ByScore(a, b) == SignOfDifference(b.score, a.score)

Compare(comparefn, a, b) ==
    CASE comparefn = "ByCount" -> ByCount(a, b)
      [] comparefn = "ByLength" -> ByLength(a, b)
      [] comparefn = "ByScore" -> ByScore(a, b)

Max(S) == CHOOSE x \in S : \A y \in S : y <= x

Insert(sorted, e, comparefn) ==
    LET stops == { j \in 1..Len(sorted) : Compare(comparefn, sorted[j], e) <= 0 }
        p == IF stops = {} THEN 0 ELSE Max(stops)
    IN SubSeq(sorted, 1, p) \o <<e>> \o SubSeq(sorted, p + 1, Len(sorted))

ArraySort(a, comparefn) ==
    LET S[i \in 0..Len(a)] == IF i = 0 THEN <<>> ELSE Insert(S[i-1], a[i], comparefn)
    IN S[Len(a)]

(***************************************************************************)
(* getAllMessagesForIdentifier: the rows as message objects.               *)
(***************************************************************************)
FilteredResult(result) ==
    [i \in 1..Len(result) |->
       [text |-> result[i].text,
        is_from_me |-> (result[i].is_from_me = 1),
        date |-> result[i].date,
        attachment |-> (result[i].cache_has_attachments = 1)]]

(***************************************************************************)
(* getWordFrequencies.                                                     *)
(***************************************************************************)
NonAttachments(messages) == SelectSeq(messages, LAMBDA msg : ~msg.attachment)

\* text.replace of a null text throws
WordFrequenciesThrows(messages) ==
    \E i \in 1..Len(messages) : ~messages[i].attachment /\ messages[i].text = NULL

\* the words of one message, lower-cased
Words(messageData) ==
    LET words == Split(CleanText(messageData.text))
    IN [i \in 1..Len(words) |-> ToLowerCase(words[i])]

RECURSIVE Flatten(_)
Flatten(ss) == IF ss = <<>> THEN <<>> ELSE Head(ss) \o Flatten(Tail(ss))

\* every word of the messages counted, in the order they are counted
AllWords(messages) ==
    LET kept == NonAttachments(messages)
    IN Flatten([i \in 1..Len(kept) |-> Words(kept[i])])

\* stats is `{}`: a word that names a property of Object.prototype reads as
\* that property (a function) until stats has a property of its own.  Of the
\* names Object.prototype has, only "constructor" is a lower-case word free
\* of the stripped characters.
Inherited(word) == word = Constructor

\* the index of word among the own properties of stats, 0 when it has none
OwnIndex(stats, word) ==
    IF \E i \in 1..Len(stats) : stats[i].word = word
    THEN CHOOSE i \in 1..Len(stats) : stats[i].word = word
    ELSE 0

\* x || 0 of a number: 0 and NaN are falsy
OrZero(x) == IF x.nan \/ x.num = 0 THEN Num(0, 1) ELSE x

\* stats[word] = stats[word] || 0; stats[word]++
\* (an inherited function is truthy, and ++ makes it NaN)
CountWord(stats, word) ==
    LET i == OwnIndex(stats, word)
    IN IF i > 0 THEN [stats EXCEPT ![i].count = Increment(OrZero(@))]
       ELSE IF Inherited(word) THEN Append(stats, [word |-> word, count |-> NaN])
       ELSE Append(stats, [word |-> word, count |-> Num(1, 1)])

\* stats after the words; its own properties in insertion order (Object.keys)
Stats(words) ==
    LET S[i \in 0..Len(words)] == IF i = 0 THEN <<>> ELSE CountWord(S[i-1], words[i])
    IN S[Len(words)]

WordFrequencies(messages) == ArraySort(Stats(AllWords(messages)), "ByCount")

(***************************************************************************)
(* getLongestMessages.                                                     *)
(***************************************************************************)
\* the comparator reads text.length of both messages; sort calls it once
\* the array has two elements, and each element is compared at least once
LongestMessagesThrows(messages) ==
    Len(messages) >= 2 /\ \E i \in 1..Len(messages) : messages[i].text = NULL

TextAndSender(messages) ==
    [i \in 1..Len(messages) |-> [text |-> messages[i].text, is_from_me |-> messages[i].is_from_me]]

LongestMessages(messages) ==
    LET sortedMessages == ArraySort(messages, "ByLength")
    IN TextAndSender(NonAttachments(sortedMessages))

(***************************************************************************)
(* getMeanSentiment.                                                       *)
(***************************************************************************)
\* the score the sentiment package gives a text (AFINN: love 3, bad -3)
Sentiment(text) ==
    CASE text = ILoveYou -> 6
      [] text = SoBad -> -3
      [] OTHER -> 0

\* Sentiments with the messages of null text skipped instead of scored 0
SentimentsOfTexts(messages) ==
    LET texts == SelectSeq(messages, LAMBDA msg : msg.text # NULL)
    IN [i \in 1..Len(texts) |-> Sentiment(texts[i].text)]

Sentiments(messages) ==
    [i \in 1..Len(messages) |->
       IF messages[i].text = NULL THEN 0 ELSE Sentiment(messages[i].text)]

RECURSIVE Sum(_)
Sum(ns) == IF ns = <<>> THEN 0 ELSE Head(ns) + Sum(Tail(ns))

MeanSentiment(messages) ==
    LET sentiments == Sentiments(messages)
    IN Divide(Sum(sentiments), Len(sentiments))

(***************************************************************************)
(* getConversationMeanSentimentScores.                                     *)
(***************************************************************************)
\* the slot of Promise.all for a promise not yet fulfilled
Unset == [set |-> FALSE, v |-> NaN]

\* StoreValue with the values kept in the order they arrive (a push)
StoreValueAsCompleted(vals, index, order, v) == [vals EXCEPT ![order] = [set |-> TRUE, v |-> v]]

\* Promise.all keeps each fulfilled value at the index of its promise
StoreValue(vals, index, order, v) == [vals EXCEPT ![index] = [set |-> TRUE, v |-> v]]

SentimentData(ids, vals) ==
    [index \in 1..Len(vals) |-> [id |-> ids[index], score |-> vals[index].v]]

SortedSentimentData(ids, vals) == ArraySort(SentimentData(ids, vals), "ByScore")

\* AfterMeanSentiment with the rejection of Promise.all left uncaught
AfterMeanSentimentUncaught(p, ids, vals, q, err) ==
    IF p.state # "pending" \/ err THEN p
    ELSE IF \A i \in 1..Len(vals) : vals[i].set THEN Resolved(SortedSentimentData(ids, vals))
    ELSE p

\* AfterMeanSentiment on a plain callback, which unlike a promise can be
\* settled again
AfterMeanSentimentResettled(p, ids, vals, q, err) ==
    IF err THEN Rejected(DbError(q))
    ELSE IF \A i \in 1..Len(vals) : vals[i].set THEN Resolved(SortedSentimentData(ids, vals))
    ELSE p

\* the promise of getConversationMeanSentimentScores after query q of
\* getMeanSentiment settled: Promise.all rejects on the first rejection and
\* is fulfilled when every slot is; a settled promise stays as it is
AfterMeanSentiment(p, ids, vals, q, err) ==
    IF p.state # "pending" THEN p
    ELSE IF err THEN Rejected(DbError(q))
    ELSE IF \A i \in 1..Len(vals) : vals[i].set THEN Resolved(SortedSentimentData(ids, vals))
    ELSE p

(***************************************************************************)
(* The state machine.  db is the store; op and arg the operation in hand;  *)
(* pending the queries whose callback has not run (0: the query of a       *)
(* single-query operation, or the identifier listing; i >= 1: the message  *)
(* query of identifiers[i]); completion the queries in the order their     *)
(* callbacks ran, failed those that gave an error; promise the promise the *)
(* operation returned.                                                     *)
(***************************************************************************)
\* no operation in hand
NoCall ==
    /\ op = "none"
    /\ arg = ""
    /\ pending = {}
    /\ identifiers = <<>>
    /\ values = <<>>
    /\ completion = <<>>
    /\ failed = {}
    /\ promise = Idle

Init == db \in Stores /\ NoCall

\* the identifiers a caller passes
Arguments == { db.chat[i].chat_identifier : i \in 1..Len(db.chat) } \cup {Stranger}

\* an operation is called: it issues its query and returns its promise
Call(o, identifier) ==
    /\ promise.state = "idle"
    /\ op' = o
    /\ arg' = identifier
    /\ pending' = {0}
    /\ promise' = Pending
    /\ UNCHANGED <<db, identifiers, values, completion, failed>>

\* the callback of query q runs, with an error or with the rows
Callback(q, err) ==
    /\ q \in pending
    /\ pending' = pending \ {q}
    /\ completion' = Append(completion, q)
    /\ failed' = IF err THEN failed \cup {q} ELSE failed

allChatIdentifiers == Call("allChatIdentifiers", "")

allChatIdentifiersSettled ==
    /\ op = "allChatIdentifiers"
    /\ \E err \in BOOLEAN :
         /\ Callback(0, err)
         /\ promise' = IF err THEN Rejected(DbError(0))
                       ELSE LET result == ChatQuery(db)
                            IN Resolved([i \in 1..Len(result) |-> result[i].chat_identifier])
    /\ UNCHANGED <<db, op, arg, identifiers, values>>

getAllMessagesForIdentifier == \E identifier \in Arguments : Call("getAllMessagesForIdentifier", identifier)

getAllMessagesForIdentifierSettled ==
    /\ op = "getAllMessagesForIdentifier"
    /\ \E err \in BOOLEAN :
         /\ Callback(0, err)
         /\ promise' = IF err THEN Rejected(DbError(0))
                       ELSE Resolved(FilteredResult(MessageQuery(db, arg)))
    /\ UNCHANGED <<db, op, arg, identifiers, values>>

getWordFrequencies == \E identifier \in Arguments : Call("getWordFrequencies", identifier)

getWordFrequenciesSettled ==
    /\ op = "getWordFrequencies"
    /\ \E err \in BOOLEAN :
         /\ Callback(0, err)
         /\ promise' = IF err THEN Rejected(DbError(0))
                       ELSE LET messages == FilteredResult(MessageQuery(db, arg))
                            IN IF WordFrequenciesThrows(messages) THEN Rejected(TypeError)
                               ELSE Resolved(WordFrequencies(messages))
    /\ UNCHANGED <<db, op, arg, identifiers, values>>

getLongestMessages == \E identifier \in Arguments : Call("getLongestMessages", identifier)

getLongestMessagesSettled ==
    /\ op = "getLongestMessages"
    /\ \E err \in BOOLEAN :
         /\ Callback(0, err)
         /\ promise' = IF err THEN Rejected(DbError(0))
                       ELSE LET messages == FilteredResult(MessageQuery(db, arg))
                            IN IF LongestMessagesThrows(messages) THEN Rejected(TypeError)
                               ELSE Resolved(LongestMessages(messages))
    /\ UNCHANGED <<db, op, arg, identifiers, values>>

getMeanSentiment == \E identifier \in Arguments : Call("getMeanSentiment", identifier)

getMeanSentimentSettled ==
    /\ op = "getMeanSentiment"
    /\ \E err \in BOOLEAN :
         /\ Callback(0, err)
         /\ promise' = IF err THEN Rejected(DbError(0))
                       ELSE Resolved(MeanSentiment(FilteredResult(MessageQuery(db, arg))))
    /\ UNCHANGED <<db, op, arg, identifiers, values>>

getConversationMeanSentimentScores == Call("getConversationMeanSentimentScores", "")

\* the listing settles: on an error the operation rejects; otherwise one
\* getMeanSentiment per identifier is started, and Promise.all of no promise
\* at all is fulfilled at once
ScoresIdentifiersSettled ==
    /\ op = "getConversationMeanSentimentScores"
    /\ \E err \in BOOLEAN :
         /\ 0 \in pending
         /\ completion' = Append(completion, 0)
         /\ failed' = IF err THEN failed \cup {0} ELSE failed
         /\ IF err
            THEN /\ promise' = Rejected(DbError(0))
                 /\ pending' = {}
                 /\ UNCHANGED <<identifiers, values>>
            ELSE LET result == ChatQuery(db)
                     ids == [i \in 1..Len(result) |-> result[i].chat_identifier]
                 IN /\ identifiers' = ids
                    /\ values' = [i \in 1..Len(ids) |-> Unset]
                    /\ pending' = 1..Len(ids)
                    /\ promise' = IF ids = <<>> THEN Resolved(SortedSentimentData(ids, <<>>))
                                  ELSE promise
    /\ UNCHANGED <<db, op, arg>>

\* the message query of identifiers[q] settles, in any order among those
\* pending; the queries still pending run on after the operation rejected
ScoresMeanSentimentSettled ==
    /\ op = "getConversationMeanSentimentScores"
    /\ \E q \in pending \ {0}, err \in BOOLEAN :
         /\ Callback(q, err)
         /\ LET mean == MeanSentiment(FilteredResult(MessageQuery(db, identifiers[q])))
                vals == IF err THEN values ELSE StoreValue(values, q, Len(completion), mean)
            IN /\ values' = vals
               /\ promise' = AfterMeanSentiment(promise, identifiers, vals, q, err)
    /\ UNCHANGED <<db, op, arg, identifiers>>

\* the caller has the outcome and no callback is left to run: the manager
\* is free for the next call
Return ==
    /\ promise.state \in {"resolved", "rejected"}
    /\ pending = {}
    /\ op' = "none"
    /\ arg' = ""
    /\ identifiers' = <<>>
    /\ values' = <<>>
    /\ completion' = <<>>
    /\ failed' = {}
    /\ promise' = Idle
    /\ UNCHANGED <<db, pending>>

Next ==
    \/ allChatIdentifiers
    \/ allChatIdentifiersSettled
    \/ getAllMessagesForIdentifier
    \/ getAllMessagesForIdentifierSettled
    \/ getWordFrequencies
    \/ getWordFrequenciesSettled
    \/ getLongestMessages
    \/ getLongestMessagesSettled
    \/ getMeanSentiment
    \/ getMeanSentimentSettled
    \/ getConversationMeanSentimentScores
    \/ ScoresIdentifiersSettled
    \/ ScoresMeanSentimentSettled
    \/ Return

Spec == Init /\ [][Next]_vars

\* a query in flight is answered.  While pending is not empty no operation
\* is called and none returns: the steps that change pending are the steps
\* of the callbacks (Callback, and the listing callback of
\* ScoresIdentifiersSettled).
QueryAnswered == pending # {} /\ pending' \in (SUBSET (0..MaxRows)) \ {pending}

FairInit == db \in StoresOf(FewMessageKinds) /\ NoCall

\* the database calls back on every query it was given
FairSpec == FairInit /\ [][Next]_vars /\ WF_pending(QueryAnswered)

(***************************************************************************)
(* Properties.                                                             *)
(***************************************************************************)
Settled == promise.state \in {"resolved", "rejected"}

\* the messages of the conversation of an identifier
MessagesOf(identifier) == FilteredResult(MessageQuery(db, identifier))

Occurrences(seq, x) == Cardinality({ i \in 1..Len(seq) : seq[i] = x })

Range(seq) == { seq[i] : i \in 1..Len(seq) }

SameElements(a, b) ==
    /\ Len(a) = Len(b)
    /\ \A x \in Range(a) \cup Range(b) : Occurrences(a, x) = Occurrences(b, x)

TextLength(text) == IF text = NULL THEN 0 ELSE Len(text)

\* C1: whenever its query succeeds, getLongestMessages resolves with exactly
\* the (text, sender flag) pairs of the non-attachment messages, ordered by
\* non-increasing text length; it does not reject, also when the conversation
\* holds attachment messages whose text is null.
C1_LongestMessages ==
    (op = "getLongestMessages" /\ Settled /\ failed = {}) =>
        /\ promise.state = "resolved"
        /\ SameElements(promise.value, TextAndSender(NonAttachments(MessagesOf(arg))))
        /\ \A i \in 1..(Len(promise.value) - 1) :
              TextLength(promise.value[i].text) >= TextLength(promise.value[i+1].text)

RECURSIVE SumOfCounts(_)
SumOfCounts(data) ==
    IF data = <<>> THEN Num(0, 1) ELSE Plus(Head(data).count, SumOfCounts(Tail(data)))

\* C2: the counts getWordFrequencies resolves with sum to the number of tokens
\* of the non-attachment messages (punctuation stripped, split on white space,
\* lower-cased), and the count of each entry is the number of occurrences of
\* its word, for every word a message can hold.
C2_WordFrequencies ==
    (op = "getWordFrequencies" /\ promise.state = "resolved") =>
        LET tokens == AllWords(MessagesOf(arg))
        IN /\ SumOfCounts(promise.value) = Num(Len(tokens), 1)
           /\ \A i \in 1..Len(promise.value) :
                 promise.value[i].count = Num(Occurrences(tokens, promise.value[i].word), 1)

\* C3: the list getConversationMeanSentimentScores resolves with is sorted by
\* non-increasing score: each score is >= the next one, also when a listed
\* identifier has no messages.
C3_ScoresSorted ==
    (op = "getConversationMeanSentimentScores" /\ promise.state = "resolved") =>
        \A i \in 1..(Len(promise.value) - 1) :
            GreaterOrEqual(promise.value[i].score, promise.value[i+1].score)

\* C4: an operation rejects if and only if a database query of it failed, and
\* then with the native error of a failed query; no other error reaches the
\* caller.
C4_OnlyDatabaseErrors ==
    Settled =>
        /\ promise.state = "rejected" <=> failed # {}
        /\ promise.state = "rejected" => promise.value \in { DbError(q) : q \in failed }

\* no chat row has the guid 'iMessage;-;' + identifier
NoMatch(identifier) ==
    \A i \in 1..Len(db.chat) : db.chat[i].guid # "iMessage;-;" \o identifier

PerIdentifier ==
    {"getAllMessagesForIdentifier", "getWordFrequencies", "getLongestMessages", "getMeanSentiment"}

FirstFailed ==
    completion[CHOOSE i \in 1..Len(completion) :
                  /\ completion[i] \in failed
                  /\ \A j \in 1..(i - 1) : completion[j] \notin failed]

\* C6: once the listing or the mean sentiment of any identifier has failed,
\* getConversationMeanSentimentScores is rejected with the (first) failure,
\* whatever completes before or after it; it resolves only when every query
\* succeeded, with one entry per identifier, never with a partial list.
C6_FailFast ==
    op = "getConversationMeanSentimentScores" =>
        /\ failed # {} => promise = Rejected(DbError(FirstFailed))
        /\ promise.state = "resolved" =>
              /\ failed = {}
              /\ pending = {}
              /\ Len(promise.value) = Len(identifiers)

\* C6 witness: of three message queries the second to complete failed, the
\* first and the third succeeded, and the operation is rejected.
C6_Witness ==
    /\ op = "getConversationMeanSentimentScores"
    /\ Len(completion) = 4
    /\ failed = {completion[3]}
    /\ promise.state = "rejected"

\* the score list computed from the store alone
ScoresOf(ids) ==
    ArraySort([i \in 1..Len(ids) |-> [id |-> ids[i], score |-> MeanSentiment(MessagesOf(ids[i]))]],
              "ByScore")

\* C7: when every query succeeds, getConversationMeanSentimentScores resolves
\* with one entry per listed identifier, each pairing the identifier with the
\* mean sentiment of its own messages, and the list is the same whatever the
\* order in which the message queries completed.
C7_OneEntryPerIdentifier ==
    (op = "getConversationMeanSentimentScores" /\ promise.state = "resolved") =>
        LET ids == [i \in 1..Len(db.chat) |-> db.chat[i].chat_identifier]
        IN /\ identifiers = ids
           /\ SameElements(promise.value,
                           [i \in 1..Len(ids) |->
                              [id |-> ids[i], score |-> MeanSentiment(MessagesOf(ids[i]))]])
           /\ promise.value = ScoresOf(ids)

\* C7 witness: two conversations of different mean sentiment, the message
\* query of the second completed before that of the first.
C7_Witness ==
    /\ op = "getConversationMeanSentimentScores"
    /\ promise.state = "resolved"
    /\ completion = <<0, 2, 1>>
    /\ promise.value[1].score # promise.value[2].score

\* the score of a message row: 0 for a null text
RowScore(row) == IF row.text = NULL THEN 0 ELSE Sentiment(row.text)

\* C8: getMeanSentiment resolves with the sum of the scores of the messages
\* divided by the number of all the messages of the conversation: a null
\* text scores 0 and counts in the divisor, attachment messages are not
\* filtered out, and one message of null text alone gives 0.
C8_MeanOverAllMessages ==
    (op = "getMeanSentiment" /\ promise.state = "resolved") =>
        LET rows == MessageQuery(db, arg)
            total == Sum([i \in 1..Len(rows) |-> RowScore(rows[i])])
        IN IF rows = <<>> THEN promise.value = NaN
           ELSE /\ ~promise.value.nan
                /\ promise.value.num * Len(rows) = total * promise.value.den
                /\ (Len(rows) = 1 /\ rows[1].text = NULL) => promise.value = Num(0, 1)

\* C8 witness: a mean other than 0 over a conversation that holds a message
\* of null text and an attachment message.
C8_Witness ==
    /\ op = "getMeanSentiment"
    /\ promise.state = "resolved"
    /\ LET rows == MessageQuery(db, arg)
       IN /\ \E i \in 1..Len(rows) : rows[i].text = NULL
          /\ \E i \in 1..Len(rows) : rows[i].cache_has_attachments = 1
          /\ ~promise.value.nan
          /\ promise.value.num # 0

\* C9: the list getWordFrequencies resolves with is sorted by non-increasing
\* count: each count is >= the next one.
C9_WordFrequenciesSorted ==
    (op = "getWordFrequencies" /\ promise.state = "resolved") =>
        \A i \in 1..(Len(promise.value) - 1) :
            GreaterOrEqual(promise.value[i].count, promise.value[i+1].count)

\* C10: with every callback run once, the promise of an operation settles
\* and settles once: a settled promise keeps its outcome until the caller
\* has it, a promise is pending only while a callback is still to run, and
\* a pending promise is settled in the end.
C10_SettlesOnce ==
    /\ [][Settled => (promise' = promise \/ promise'.state = "idle")]_vars
    /\ [](promise.state = "pending" => pending # {})
    /\ (promise.state = "pending") ~> Settled

\* C10 witness: of two message queries the first to complete failed and the
\* other succeeded after it; no callback is left and the promise is rejected.
C10_Witness ==
    /\ op = "getConversationMeanSentimentScores"
    /\ Len(identifiers) = 2
    /\ pending = {}
    /\ failed = {completion[2]}
    /\ promise.state = "rejected"

=============================================================================
